---- MODULE Spec2Model ----
(***************************************************************************)
(* A model of morse-go (src/morse.go): the code tables and their           *)
(* initialisation, the Encode / Decode / Encodable / Decodable / Escape    *)
(* functions, and the synchronous playback loop of Beep.                   *)
(*                                                                         *)
(* A Go string is modelled as the sequence of its runes, a rune as its     *)
(* Unicode code point.  A Code (a Go string of "•" and "−") is the         *)
(* sequence of its runes too, so that ranging over a code, as Beep does,   *)
(* is ranging over the sequence.                                           *)
(***************************************************************************)
EXTENDS Integers, Sequences, FiniteSets, TLC

\* ------------------------------------------------------------------ bounds
\* longest input text over the sample alphabet
MaxLen == 3
\* longest code built by CodeFromDurations
MaxUnits == 4
\* longest transcript handed to Decode / Decodable
MaxCodes == 2
\* longest transcript handed to Beep
MaxBeepCodes == 3

\* ------------------------------------------------------- durations, codes
\* Dit = "•" (U+2022), Dah = "−" (U+2212)
Dit == 8226
Dah == 8722

wpm == 10
durationShort == 1200 \div wpm
durationLong == durationShort * 3
durationGap == durationShort * 2

\* International morse codes (ITU)
A == <<Dit, Dah>>
\* [mutant] B is given the durations of A
BTypo == <<Dit, Dah>>
B == <<Dah, Dit, Dit, Dit>>
C == <<Dah, Dit, Dah, Dit>>
D == <<Dah, Dit, Dit>>
E == <<Dit>>
F == <<Dit, Dit, Dah, Dit>>
G == <<Dah, Dah, Dit>>
H == <<Dit, Dit, Dit, Dit>>
I == <<Dit, Dit>>
J == <<Dit, Dah, Dah, Dah>>
K == <<Dah, Dit, Dah>>
L == <<Dit, Dah, Dit, Dit>>
M == <<Dah, Dah>>
N == <<Dah, Dit>>
O == <<Dah, Dah, Dah>>
P == <<Dit, Dah, Dah, Dit>>
Q == <<Dah, Dah, Dit, Dah>>
R == <<Dit, Dah, Dit>>
S == <<Dit, Dit, Dit>>
T == <<Dah>>
U == <<Dit, Dit, Dah>>
V == <<Dit, Dit, Dit, Dah>>
W == <<Dit, Dah, Dah>>
X == <<Dah, Dit, Dit, Dah>>
Y == <<Dah, Dit, Dah, Dah>>
Z == <<Dah, Dah, Dit, Dit>>

One == <<Dit, Dah, Dah, Dah, Dah>>
Two == <<Dit, Dit, Dah, Dah, Dah>>
Three == <<Dit, Dit, Dit, Dah, Dah>>
Four == <<Dit, Dit, Dit, Dit, Dah>>
Five == <<Dit, Dit, Dit, Dit, Dit>>
Six == <<Dah, Dit, Dit, Dit, Dit>>
Seven == <<Dah, Dah, Dit, Dit, Dit>>
Eight == <<Dah, Dah, Dah, Dit, Dit>>
Nine == <<Dah, Dah, Dah, Dah, Dit>>
Zero == <<Dah, Dah, Dah, Dah, Dah>>

\* Space Code = " " (the one rune U+0020), None Code = ""
Space == <<32>>
None == <<>>

\* CodeFromDurations(durations...): the durations' strings joined with "".
RECURSIVE CodeFromDurations(_)
CodeFromDurations(durations) ==
    IF durations = <<>> THEN <<>>
    ELSE <<Head(durations)>> \o CodeFromDurations(Tail(durations))

\* codesMap = map[rune]Code{'a': A, ..., '0': Zero, ' ': Space}
codesMap ==
    (97 :> A)
    @@ (98 :> B)
    @@ (99 :> C)
    @@ (100 :> D)
    @@ (101 :> E)
    @@ (102 :> F)
    @@ (103 :> G)
    @@ (104 :> H)
    @@ (105 :> I)
    @@ (106 :> J)
    @@ (107 :> K)
    @@ (108 :> L)
    @@ (109 :> M)
    @@ (110 :> N)
    @@ (111 :> O)
    @@ (112 :> P)
    @@ (113 :> Q)
    @@ (114 :> R)
    @@ (115 :> S)
    @@ (116 :> T)
    @@ (117 :> U)
    @@ (118 :> V)
    @@ (119 :> W)
    @@ (120 :> X)
    @@ (121 :> Y)
    @@ (122 :> Z)
    @@ (49 :> One)
    @@ (50 :> Two)
    @@ (51 :> Three)
    @@ (52 :> Four)
    @@ (53 :> Five)
    @@ (54 :> Six)
    @@ (55 :> Seven)
    @@ (56 :> Eight)
    @@ (57 :> Nine)
    @@ (48 :> Zero)
    @@ (32 :> Space)

\* The order in which init() writes the entries of the codes' map literal.
codesMapKeys ==
    <<97, 98, 99, 100, 101, 102, 103, 104, 105, 106, 107, 108, 109,
      110, 111, 112, 113, 114, 115, 116, 117, 118, 119, 120, 121, 122,
      49, 50, 51, 52, 53, 54, 55, 56, 57, 48, 32>>

\* ---------------------------------------------------------------- state
VARIABLES
    charsMap,      \* var charsMap map[Code]rune
    initPc,        \* init(): "start", "range", "done"
    initFirst,     \* init(): where the range over codesMap starts
    initCount,     \* init(): entries of codesMap visited so far
    text,          \* the text a caller passes in
    encodable,     \* result of Encodable(text)
    encoded,       \* result of Encode(text)
    decoded,       \* result of Decode(codes of Encode(text))
    escaped,       \* result of Escape(text)
    escapedTwice,  \* result of Escape(Escape(text))
    escEncodable,  \* result of Encodable(Escape(text))
    escEncoded,    \* result of Encode(Escape(text))
    codes,         \* the transcript a caller passes in
    decodable,     \* result of Decodable(codes)
    decodedCodes,  \* result of Decode(codes)
    beepPc,        \* Beep: position of the calling goroutine
    beepI,         \* Beep: index of the current code (range codes)
    beepJ,         \* Beep: index of the current rune (range code)
    sleepLeft,     \* Beep: milliseconds left of time.Sleep
    mixer,         \* speaker: the streamers being played
    started,       \* history: the runes whose tones were started, in order
    completed,     \* history: number of completion callbacks received
    gaps           \* history: number of inter-code gaps slept in full

initVars == <<initPc, initFirst, initCount>>
textVars == <<text, encodable, encoded, decoded, escaped, escapedTwice,
              escEncodable, escEncoded>>
codesVars == <<codes, decodable, decodedCodes>>
beepVars == <<beepPc, beepI, beepJ, sleepLeft, mixer, started, completed, gaps>>
vars == <<charsMap, initVars, textVars, codesVars, beepVars>>

\* ------------------------------------------------------- lookup helpers
\* Go's nil error, and an error value: what it is about and what it wraps.
nil == [kind |-> "nil", what |-> <<>>, cause |-> <<>>]
Errorf(kind, what, cause) == [kind |-> kind, what |-> what, cause |-> cause]

\* converts given character to a morse code.
charToCode(chr) ==
    IF chr \in DOMAIN codesMap
    THEN [code |-> codesMap[chr], err |-> nil]
    ELSE [code |-> None, err |-> Errorf("noMatchingCharacter", <<chr>>, <<>>)]

\* converts given morse code to a character.
codeToChar(code) ==
    IF code \in DOMAIN charsMap
    THEN [chr |-> charsMap[code], err |-> nil]
    ELSE [chr |-> 0, err |-> Errorf("noMatchingCode", code, <<>>)]

\* unicode.ToLower, on the runes the model draws texts from: ASCII, the
\* Latin-1 letters, U+0130 and U+0131.
unicodeToLower(r) ==
    IF r \in 65..90 THEN r + 32
    ELSE IF r \in (192..222) \ {215} THEN r + 32
    ELSE IF r = 304 THEN 105
    ELSE r

\* unicode.TurkishCase.ToLower: 'I' (U+0049) -> U+0131, U+0130 -> 'i', and
\* where the special ranges leave the rune alone, unicode.ToLower.
TurkishCaseToLower(r) ==
    LET r1 == IF r = 73 THEN 305
              ELSE IF r = 304 THEN 105
              ELSE r
    IN  IF r1 = r THEN unicodeToLower(r) ELSE r1

\* strings.ToLowerSpecial(unicode.TurkishCase, text)
ToLowerSpecial(s) == [k \in 1..Len(s) |-> TurkishCaseToLower(s[k])]

\* ------------------------------------------------------------ Encodable
\* [mutant] only the first rune is looked up
EncodableLoopFirstOnly(runes) ==
    IF runes = <<>> THEN [encodable |-> TRUE, err |-> nil]
    ELSE LET r == charToCode(Head(runes))
         IN  IF r.err # nil THEN [encodable |-> FALSE, err |-> r.err]
             ELSE [encodable |-> TRUE, err |-> nil]

\* the loop of Encodable over the lowered runes: the first failure returns.
RECURSIVE EncodableLoop(_)
EncodableLoop(runes) ==
    IF runes = <<>> THEN [encodable |-> TRUE, err |-> nil]
    ELSE LET r == charToCode(Head(runes))
         IN  IF r.err # nil THEN [encodable |-> FALSE, err |-> r.err]
             ELSE EncodableLoop(Tail(runes))

Encodable(s) == EncodableLoop(ToLowerSpecial(s))

\* --------------------------------------------------------------- Encode
\* the conversion loop of Encode: a rune whose lookup fails is skipped.
RECURSIVE EncodeLoop(_)
EncodeLoop(runes) ==
    IF runes = <<>> THEN <<>>
    ELSE LET r == charToCode(Head(runes))
         IN  IF r.err = nil THEN <<r.code>> \o EncodeLoop(Tail(runes))
             ELSE EncodeLoop(Tail(runes))

\* [mutant] the conversion runs whatever the check said
EncodePartial(s) ==
    LET chk == Encodable(s)
    IN  IF chk.err = nil
        THEN [codes |-> EncodeLoop(ToLowerSpecial(s)), err |-> nil]
        ELSE [codes |-> EncodeLoop(ToLowerSpecial(s)),
              err |-> Errorf("notEncodable", s, <<chk.err>>)]

Encode(s) ==
    LET chk == Encodable(s)
    IN  IF chk.err = nil
        THEN [codes |-> EncodeLoop(ToLowerSpecial(s)), err |-> nil]
        ELSE [codes |-> <<>>, err |-> Errorf("notEncodable", s, <<chk.err>>)]

\* ------------------------------------------------------------ Decodable
\* [mutant] the loop goes on after a failure: the last failure is reported
RECURSIVE DecodableLast(_)
DecodableLast(cs) ==
    IF cs = <<>> THEN [decodable |-> TRUE, err |-> nil]
    ELSE LET r == codeToChar(Head(cs))
             rest == DecodableLast(Tail(cs))
         IN  IF rest.err # nil THEN rest
             ELSE IF r.err # nil THEN [decodable |-> FALSE, err |-> r.err]
             ELSE rest

\* the loop of Decodable over the codes: the first failure returns.
RECURSIVE Decodable(_)
Decodable(cs) ==
    IF cs = <<>> THEN [decodable |-> TRUE, err |-> nil]
    ELSE LET r == codeToChar(Head(cs))
         IN  IF r.err # nil THEN [decodable |-> FALSE, err |-> r.err]
             ELSE Decodable(Tail(cs))

\* --------------------------------------------------------------- Decode
\* [mutant] the characters are collected back to front
RECURSIVE DecodeLoopReversed(_)
DecodeLoopReversed(cs) ==
    IF cs = <<>> THEN <<>>
    ELSE LET r == codeToChar(Head(cs))
         IN  IF r.err = nil THEN DecodeLoopReversed(Tail(cs)) \o <<r.chr>>
             ELSE DecodeLoopReversed(Tail(cs))

\* the conversion loop of Decode: a code whose lookup fails is skipped.
RECURSIVE DecodeLoop(_)
DecodeLoop(cs) ==
    IF cs = <<>> THEN <<>>
    ELSE LET r == codeToChar(Head(cs))
         IN  IF r.err = nil THEN <<r.chr>> \o DecodeLoop(Tail(cs))
             ELSE DecodeLoop(Tail(cs))

Decode(cs) ==
    LET chk == Decodable(cs)
    IN  IF chk.err = nil
        THEN [decoded |-> DecodeLoop(cs), err |-> nil]
        ELSE [decoded |-> <<>>, err |-> Errorf("notDecodable", cs, <<chk.err>>)]

\* --------------------------------------------------------------- Escape
\* \s of Go's regexp (RE2): [\t\n\f\r ]
isSpaceClass(r) == r \in {9, 10, 12, 13, 32}

\* the class [^a-zA-Z0-9\s] of regexToEscape
isToEscape(r) ==
    ~(r \in 97..122 \/ r \in 65..90 \/ r \in 48..57 \/ isSpaceClass(r))

\* length of the longest prefix of s made of \s runes
RECURSIVE spaceRun(_)
spaceRun(s) ==
    IF s = <<>> \/ ~isSpaceClass(Head(s)) THEN 0 ELSE 1 + spaceRun(Tail(s))

\* length of the longest prefix of s made of runes to escape
RECURSIVE escapeRun(_)
escapeRun(s) ==
    IF s = <<>> \/ ~isToEscape(Head(s)) THEN 0 ELSE 1 + escapeRun(Tail(s))

\* regexToEscape.ReplaceAllString(s, ""): each leftmost longest match of
\* [^a-zA-Z0-9\s]+ is replaced by the empty string.
RECURSIVE regexToEscapeReplaceAll(_)
regexToEscapeReplaceAll(s) ==
    IF s = <<>> THEN <<>>
    ELSE LET n == escapeRun(s)
         IN  IF n >= 1
             THEN regexToEscapeReplaceAll(SubSeq(s, n + 1, Len(s)))
             ELSE <<Head(s)>> \o regexToEscapeReplaceAll(Tail(s))

\* regexRedundantSpaces.ReplaceAllString(s, " "): each leftmost longest
\* match of \s{2,} is replaced by one space.
RECURSIVE regexRedundantSpacesReplaceAll(_)
regexRedundantSpacesReplaceAll(s) ==
    IF s = <<>> THEN <<>>
    ELSE LET n == spaceRun(s)
         IN  IF n >= 2
             THEN <<32>> \o regexRedundantSpacesReplaceAll(SubSeq(s, n + 1, Len(s)))
             ELSE <<Head(s)>> \o regexRedundantSpacesReplaceAll(Tail(s))

\* [mutant] the two replacements are applied in the other order
EscapeSwapped(s) == regexToEscapeReplaceAll(regexRedundantSpacesReplaceAll(s))

Escape(s) == regexRedundantSpacesReplaceAll(regexToEscapeReplaceAll(s))

\* ================================================================ inputs
\* all sequences over set of length at most n
SeqsUpTo(set, n) == UNION {[1..m -> set] : m \in 0..n}

\* the runes long texts are drawn from:
\* a i I Q 7 space tab newline & U+0130
SampleRunes == {97, 105, 73, 81, 55, 32, 9, 10, 38, 304}

\* the runes one-rune texts are drawn from: the ASCII letters and digits,
\* the \s runes, some punctuation, e-acute, U+0130 and U+0131
AllRunes ==
    (97..122) \cup (65..90) \cup (48..57) \cup {9, 10, 12, 13, 32}
    \cup {33, 38, 46, 233, 304, 305}

\* texts of the documentation and the tests: "sos", "s o s", "Hello!"
ExampleTexts ==
    { <<115, 111, 115>>,
      <<115, 32, 111, 32, 115>>,
      <<72, 101, 108, 108, 111, 33>> }

Texts ==
    SeqsUpTo(SampleRunes, MaxLen) \cup {<<r>> : r \in AllRunes}
    \cup ExampleTexts

\* the codes a caller can hold: the named constants and whatever
\* CodeFromDurations builds from at most MaxUnits durations
TableCodes == {codesMap[k] : k \in DOMAIN codesMap}
Durations == SeqsUpTo({Dit, Dah}, MaxUnits)

\* the codes Beep is given in the model: e t a n s, Space and None
BeepCodes == {E, T, A, N, S, Space, None}

\* ========================================================== init()
NumKeys == Len(codesMapKeys)

\* the key the range over codesMap visits n-th (n from 0) when it starts at
\* entry first: Go starts a map iteration at a random entry
rangeKey(first, n) == codesMapKeys[((first - 1 + n) % NumKeys) + 1]

\* charsMap[v] = k
assign(m, k) == (codesMap[k] :> k) @@ m

\* charsMap after the first n iterations of the range that starts at first
RECURSIVE charsMapAfter(_, _)
charsMapAfter(first, n) ==
    IF n = 0 THEN <<>>
    ELSE assign(charsMapAfter(first, n - 1), rangeKey(first, n - 1))

\* the tables a call made after init() can find
InitialisedCharsMaps == {charsMapAfter(f, NumKeys) : f \in 1..NumKeys}

\* values of the variables a specification does not use
textIdle ==
    /\ text = <<>> /\ encodable = <<>> /\ encoded = <<>> /\ decoded = <<>>
    /\ escaped = <<>> /\ escapedTwice = <<>> /\ escEncodable = <<>>
    /\ escEncoded = <<>>
codesIdle == codes = <<>> /\ decodable = <<>> /\ decodedCodes = <<>>
beepIdle ==
    /\ beepPc = "idle" /\ beepI = 0 /\ beepJ = 0 /\ sleepLeft = 0
    /\ mixer = <<>> /\ started = <<>> /\ completed = 0 /\ gaps = 0

\* before init(): both maps are nil
InitInit ==
    /\ charsMap = <<>>
    /\ initPc = "start" /\ initFirst = 0 /\ initCount = 0
    /\ textIdle /\ codesIdle /\ beepIdle

\* codesMap = map[rune]Code{...}; charsMap = make(map[Code]rune); the range
\* starts at an entry of the runtime's choosing
InitMakeMaps ==
    /\ initPc = "start"
    /\ \E f \in 1..NumKeys : initFirst' = f
    /\ charsMap' = <<>>
    /\ initCount' = 0
    /\ initPc' = "range"
    /\ UNCHANGED <<textVars, codesVars, beepVars>>

\* one iteration of: for k, v := range codesMap { charsMap[v] = k }
InitRangeStep ==
    /\ initPc = "range"
    /\ initCount < NumKeys
    /\ charsMap' = assign(charsMap, rangeKey(initFirst, initCount))
    /\ initCount' = initCount + 1
    /\ UNCHANGED <<initPc, initFirst, textVars, codesVars, beepVars>>

\* the range is over; the regular expressions are compiled and init() returns
InitReturn ==
    /\ initPc = "range"
    /\ initCount = NumKeys
    /\ initPc' = "done"
    /\ UNCHANGED <<charsMap, initFirst, initCount, textVars, codesVars, beepVars>>

NextInit == InitMakeMaps \/ InitRangeStep \/ InitReturn
SpecInit == InitInit /\ [][NextInit]_vars

\* ===================================================== calls on a text
Init ==
    /\ charsMap \in InitialisedCharsMaps
    /\ initPc = "done" /\ initFirst = 0 /\ initCount = NumKeys
    /\ text \in Texts
    /\ encodable = <<>> /\ encoded = <<>> /\ decoded = <<>>
    /\ escaped = <<>> /\ escapedTwice = <<>> /\ escEncodable = <<>>
    /\ escEncoded = <<>>
    /\ codesIdle /\ beepIdle

CallEncodable ==
    /\ encodable = <<>>
    /\ encodable' = <<Encodable(text)>>
    /\ UNCHANGED <<charsMap, initVars, text, encoded, decoded, escaped,
                   escapedTwice, escEncodable, escEncoded, codesVars, beepVars>>

CallEncode ==
    /\ encoded = <<>>
    /\ encoded' = <<Encode(text)>>
    /\ UNCHANGED <<charsMap, initVars, text, encodable, decoded, escaped,
                   escapedTwice, escEncodable, escEncoded, codesVars, beepVars>>

\* Decode on what Encode returned without an error
CallDecode ==
    /\ encoded # <<>> /\ encoded[1].err = nil
    /\ decoded = <<>>
    /\ decoded' = <<Decode(encoded[1].codes)>>
    /\ UNCHANGED <<charsMap, initVars, text, encodable, encoded, escaped,
                   escapedTwice, escEncodable, escEncoded, codesVars, beepVars>>

CallEscape ==
    /\ escaped = <<>>
    /\ escaped' = <<Escape(text)>>
    /\ UNCHANGED <<charsMap, initVars, text, encodable, encoded, decoded,
                   escapedTwice, escEncodable, escEncoded, codesVars, beepVars>>

\* Escape on what Escape returned
CallEscapeTwice ==
    /\ escaped # <<>>
    /\ escapedTwice = <<>>
    /\ escapedTwice' = <<Escape(escaped[1])>>
    /\ UNCHANGED <<charsMap, initVars, text, encodable, encoded, decoded,
                   escaped, escEncodable, escEncoded, codesVars, beepVars>>

\* Encodable on what Escape returned
CallEncodableEscaped ==
    /\ escaped # <<>>
    /\ escEncodable = <<>>
    /\ escEncodable' = <<Encodable(escaped[1])>>
    /\ UNCHANGED <<charsMap, initVars, text, encodable, encoded, decoded,
                   escaped, escapedTwice, escEncoded, codesVars, beepVars>>

\* Encode on what Escape returned
CallEncodeEscaped ==
    /\ escaped # <<>>
    /\ escEncoded = <<>>
    /\ escEncoded' = <<Encode(escaped[1])>>
    /\ UNCHANGED <<charsMap, initVars, text, encodable, encoded, decoded,
                   escaped, escapedTwice, escEncodable, codesVars, beepVars>>

Next ==
    \/ CallEncodable
    \/ CallEncode
    \/ CallDecode
    \/ CallEscape
    \/ CallEscapeTwice
    \/ CallEncodableEscaped
    \/ CallEncodeEscaped

Spec == Init /\ [][Next]_vars

\* ================================================ calls on a transcript
InitCodes ==
    /\ charsMap \in InitialisedCharsMaps
    /\ initPc = "done" /\ initFirst = 0 /\ initCount = NumKeys
    /\ textIdle /\ codesIdle /\ beepIdle

\* the caller gets the transcript from Encode
EncodeToCodes ==
    /\ text = <<>> /\ encoded = <<>> /\ codes = <<>>
    /\ decodable = <<>> /\ decodedCodes = <<>>
    /\ \E t \in Texts \ {<<>>} :
          /\ text' = t
          /\ encoded' = <<Encode(t)>>
          /\ codes' = Encode(t).codes
    /\ UNCHANGED <<charsMap, initVars, encodable, decoded, escaped, escapedTwice,
                   escEncodable, escEncoded, decodable, decodedCodes, beepVars>>

\* the caller appends a code built by CodeFromDurations
AppendCodeFromDurations ==
    /\ encoded = <<>>
    /\ decodable = <<>> /\ decodedCodes = <<>>
    /\ Len(codes) < MaxCodes
    /\ \E d \in Durations : codes' = Append(codes, CodeFromDurations(d))
    /\ UNCHANGED <<charsMap, initVars, textVars, decodable, decodedCodes, beepVars>>

\* the caller appends one of the named codes (A .. Z, One .. Zero, Space)
AppendNamedCode ==
    /\ encoded = <<>>
    /\ decodable = <<>> /\ decodedCodes = <<>>
    /\ Len(codes) < MaxCodes
    /\ \E c \in TableCodes : codes' = Append(codes, c)
    /\ UNCHANGED <<charsMap, initVars, textVars, decodable, decodedCodes, beepVars>>

CallDecodable ==
    /\ decodable = <<>>
    /\ decodable' = <<Decodable(codes)>>
    /\ UNCHANGED <<charsMap, initVars, textVars, codes, decodedCodes, beepVars>>

CallDecodeCodes ==
    /\ decodedCodes = <<>>
    /\ decodedCodes' = <<Decode(codes)>>
    /\ UNCHANGED <<charsMap, initVars, textVars, codes, decodable, beepVars>>

NextCodes ==
    \/ EncodeToCodes
    \/ AppendCodeFromDurations
    \/ AppendNamedCode
    \/ CallDecodable
    \/ CallDecodeCodes

SpecCodes == InitCodes /\ [][NextCodes]_vars

\* ================================================================ Beep
\* the tone length Beep's switch gives a rune of the code: a rune that is
\* neither Dit nor Dah (the space of Space) leaves duration at zero
toneDuration(chr) ==
    IF chr = Dit THEN durationShort
    ELSE IF chr = Dah THEN durationLong
    ELSE 0

\* the runes of all the codes of a transcript, in order
RECURSIVE unitsOf(_)
unitsOf(cs) == IF cs = <<>> THEN <<>> ELSE Head(cs) \o unitsOf(Tail(cs))

\* s without its k-th element
removeAt(s, k) == SubSeq(s, 1, k - 1) \o SubSeq(s, k + 1, Len(s))

InitBeep ==
    /\ charsMap \in InitialisedCharsMaps
    /\ initPc = "done" /\ initFirst = 0 /\ initCount = NumKeys
    /\ textIdle
    /\ codes \in SeqsUpTo(BeepCodes, MaxBeepCodes)
    /\ decodable = <<>> /\ decodedCodes = <<>>
    /\ beepPc = "call" /\ beepI = 0 /\ beepJ = 0 /\ sleepLeft = 0
    /\ mixer = <<>> /\ started = <<>> /\ completed = 0 /\ gaps = 0

\* speaker.Init(...); done := make(chan bool); the range over codes begins
BeepEnter ==
    /\ beepPc = "call"
    /\ beepPc' = "code"
    /\ beepI' = 1
    /\ UNCHANGED <<charsMap, initVars, textVars, codesVars, beepJ, sleepLeft,
                   mixer, started, completed, gaps>>

\* the range over codes is exhausted: Beep returns
BeepReturn ==
    /\ beepPc = "code"
    /\ beepI > Len(codes)
    /\ beepPc' = "returned"
    /\ UNCHANGED <<charsMap, initVars, textVars, codesVars, beepI, beepJ,
                   sleepLeft, mixer, started, completed, gaps>>

\* next code: if i > 0 { time.Sleep(durationGap * time.Millisecond) }
BeepNextCode ==
    /\ beepPc = "code"
    /\ beepI <= Len(codes)
    /\ IF beepI > 1
       THEN beepPc' = "sleep" /\ sleepLeft' = durationGap /\ beepJ' = beepJ
       ELSE beepPc' = "rune" /\ sleepLeft' = sleepLeft /\ beepJ' = 1
    /\ UNCHANGED <<charsMap, initVars, textVars, codesVars, beepI, mixer,
                   started, completed, gaps>>

\* time.Sleep returns once the gap has passed
BeepWake ==
    /\ beepPc = "sleep"
    /\ sleepLeft = 0
    /\ beepPc' = "rune"
    /\ beepJ' = 1
    /\ gaps' = gaps + 1
    /\ UNCHANGED <<charsMap, initVars, textVars, codesVars, beepI, sleepLeft,
                   mixer, started, completed>>

\* the range over the code's runes is exhausted: on to the next code
BeepCodeDone ==
    /\ beepPc = "rune"
    /\ beepJ > Len(codes[beepI])
    /\ beepPc' = "code"
    /\ beepI' = beepI + 1
    /\ UNCHANGED <<charsMap, initVars, textVars, codesVars, beepJ, sleepLeft,
                   mixer, started, completed, gaps>>

\* [mutant] Beep does not receive from done after speaker.Play
BeepPlayNoWait ==
    /\ beepPc = "rune"
    /\ beepJ <= Len(codes[beepI])
    /\ LET chr == codes[beepI][beepJ]
       IN  /\ mixer' = Append(mixer, [left |-> toneDuration(chr)])
           /\ started' = Append(started, chr)
    /\ beepJ' = beepJ + 1
    /\ UNCHANGED <<charsMap, initVars, textVars, codesVars, beepPc, beepI,
                   sleepLeft, completed, gaps>>

\* speaker.Play(beep.Seq(beep.Take(duration, beeper()), beep.Callback(...))):
\* the mixer gets one more streamer, and Beep goes on to <-done
BeepPlay ==
    /\ beepPc = "rune"
    /\ beepJ <= Len(codes[beepI])
    /\ LET chr == codes[beepI][beepJ]
       IN  /\ mixer' = Append(mixer, [left |-> toneDuration(chr)])
           /\ started' = Append(started, chr)
    /\ beepPc' = "wait"
    /\ UNCHANGED <<charsMap, initVars, textVars, codesVars, beepI, beepJ,
                   sleepLeft, completed, gaps>>

\* a streamer's tone is over and its callback sends on done while Beep
\* receives: the channel is unbuffered, send and receive happen together
BeepDone ==
    /\ beepPc = "wait"
    /\ \E k \in 1..Len(mixer) :
          /\ mixer[k].left = 0
          /\ mixer' = removeAt(mixer, k)
    /\ completed' = completed + 1
    /\ beepPc' = "rune"
    /\ beepJ' = beepJ + 1
    /\ UNCHANGED <<charsMap, initVars, textVars, codesVars, beepI, sleepLeft,
                   started, gaps>>

\* durationShort milliseconds pass: every tone being played and the sleep
\* get that much shorter
Tick ==
    /\ \/ beepPc = "sleep" /\ sleepLeft > 0
       \/ \E k \in 1..Len(mixer) : mixer[k].left > 0
    /\ sleepLeft' = IF sleepLeft > durationShort THEN sleepLeft - durationShort ELSE 0
    /\ mixer' = [k \in 1..Len(mixer) |->
                    [left |-> IF mixer[k].left > durationShort
                              THEN mixer[k].left - durationShort ELSE 0]]
    /\ UNCHANGED <<charsMap, initVars, textVars, codesVars, beepPc, beepI,
                   beepJ, started, completed, gaps>>

NextBeep ==
    \/ BeepEnter
    \/ BeepReturn
    \/ BeepNextCode
    \/ BeepWake
    \/ BeepCodeDone
    \/ BeepPlay
    \/ BeepDone
    \/ Tick

\* the goroutines are scheduled and time passes
SpecBeep == InitBeep /\ [][NextBeep]_vars /\ WF_vars(NextBeep)

\* ================================================================ claims
isLowerOrDigit(r) == r \in 97..122 \/ r \in 48..57
isAsciiLetter(r) == r \in 97..122 \/ r \in 65..90
isDigit(r) == r \in 48..57

\* the supported characters: 26 lowercase letters, 10 digits, the space
Supported == (97..122) \cup (48..57) \cup {32}

\* lowercase letters, digits and single interior spaces
isRoundTripText(s) ==
    /\ \A k \in 1..Len(s) : isLowerOrDigit(s[k]) \/ s[k] = 32
    /\ s # <<>> => s[1] # 32 /\ s[Len(s)] # 32
    /\ \A k \in 1..(Len(s) - 1) : ~(s[k] = 32 /\ s[k + 1] = 32)

\* C1 (round trip): for a text of lowercase letters, digits and single
\* interior spaces, Encode returns no error, and Decode of what it returned
\* returns no error and the text itself.
C1_RoundTrip ==
    isRoundTripText(text) =>
        /\ encoded # <<>> => encoded[1].err = nil
        /\ decoded # <<>> => decoded[1].err = nil /\ decoded[1].decoded = text

C1_Witness ==
    /\ isRoundTripText(text)
    /\ Len(text) = 3 /\ text[2] = 32 /\ text[1] # text[3]
    /\ decoded # <<>>

\* C2 (escape safety): whatever the text, Encodable of what Escape returned
\* is (true, nil) and Encode of it returns no error.
C2_EscapeSafety ==
    /\ escEncodable # <<>> =>
          escEncodable[1] = [encodable |-> TRUE, err |-> nil]
    /\ escEncoded # <<>> => escEncoded[1].err = nil

\* C3 (escape idempotence): Escape of what Escape returned is what Escape
\* returned.
C3_EscapeIdempotent ==
    escapedTwice # <<>> => escapedTwice[1] = escaped[1]

C3_Witness ==
    /\ escapedTwice # <<>>
    /\ \E k \in 1..Len(text) : isToEscape(text[k])
    /\ \E k \in 1..(Len(text) - 1) : isSpaceClass(text[k]) /\ isSpaceClass(text[k + 1])
    /\ Len(escaped[1]) > 0 /\ Len(escaped[1]) < Len(text)

\* C4 (bijection of the tables): once init() has returned, the codes' map
\* has the 37 supported characters as keys and no two of them share a code,
\* the chars' map has one entry per entry of the codes' map, and
\* codeToChar(charToCode(c)) is c, without error, for each of them.
C4_Bijection ==
    initPc = "done" =>
        /\ DOMAIN codesMap = Supported
        /\ \A c1, c2 \in Supported : c1 # c2 => codesMap[c1] # codesMap[c2]
        /\ Cardinality(DOMAIN charsMap) = Cardinality(DOMAIN codesMap)
        /\ \A c \in Supported :
              /\ charToCode(c).err = nil
              /\ codeToChar(charToCode(c).code) = [chr |-> c, err |-> nil]

C4_Witness ==
    /\ initPc = "done"
    /\ initFirst = 20
    /\ Cardinality(DOMAIN charsMap) = 37

\* some case-folded character of s has no entry in the codes' map
hasUnsupported(s) ==
    \E k \in 1..Len(s) : TurkishCaseToLower(s[k]) \notin DOMAIN codesMap

Hello == <<72, 101, 108, 108, 111, 33>>

\* C5 (Encode validation): Encode returns an error exactly when Encodable
\* returns false, that is when some case-folded character of the text has
\* no entry in the codes' map, and then its transcript is empty; "Hello!"
\* is such a text.
C5_EncodeValidation ==
    /\ encoded # <<>> =>
          /\ encoded[1].err # nil <=> hasUnsupported(text)
          /\ encoded[1].err # nil => encoded[1].codes = <<>>
          /\ encodable # <<>> =>
                (encoded[1].err # nil <=> ~encodable[1].encodable)
          /\ text = Hello => encoded[1].err # nil /\ encoded[1].codes = <<>>
    /\ encodable # <<>> =>
          /\ encodable[1].encodable <=> ~hasUnsupported(text)
          /\ encodable[1].encodable <=> encodable[1].err = nil

C5_Witness ==
    /\ encoded # <<>> /\ encodable # <<>>
    /\ encoded[1].err # nil
    /\ Len(text) = 3
    /\ ~hasUnsupported(SubSeq(text, 1, 2))

\* plain ASCII lowercasing
asciiToLower(r) == IF r \in 65..90 THEN r + 32 ELSE r
asciiLower(s) == [k \in 1..Len(s) |-> asciiToLower(s[k])]

\* Encodable and Encode with plain ASCII lowercasing as the fold
asciiEncodable(s) == EncodableLoop(asciiLower(s))
asciiEncode(s) ==
    IF asciiEncodable(s).err = nil
    THEN [codes |-> EncodeLoop(asciiLower(s)), err |-> nil]
    ELSE [codes |-> <<>>,
          err |-> Errorf("notEncodable", s, <<asciiEncodable(s).err>>)]

isAsciiText(s) ==
    \A k \in 1..Len(s) : isAsciiLetter(s[k]) \/ isDigit(s[k]) \/ s[k] = 32

\* C6 (case folding): on a text of ASCII letters, digits and spaces,
\* Encodable and Encode return what they would return with plain ASCII
\* lowercasing; an upper-case letter encodes to the code of its lower-case
\* form.
C6_FoldAgreesWithAscii ==
    isAsciiText(text) =>
        /\ encodable # <<>> => encodable[1] = asciiEncodable(text)
        /\ encoded # <<>> => encoded[1] = asciiEncode(text)
        /\ (encoded # <<>> /\ Len(text) = 1 /\ text[1] \in 65..90) =>
              encoded[1] = [codes |-> <<codesMap[text[1] + 32]>>, err |-> nil]

\* no Latin letter and no digit
isNonAlphanumeric(s) ==
    \A k \in 1..Len(s) : ~isAsciiLetter(s[k]) /\ ~isDigit(s[k])

\* C7 (non-alphanumeric input): Escape of a text with no Latin letter and no
\* digit is empty or made of space characters (' ') only.
C7_EscapesToSpaces ==
    (isNonAlphanumeric(text) /\ escaped # <<>>) =>
        \A k \in 1..Len(escaped[1]) : escaped[1][k] = 32

\* the positions of the codes with no entry in the chars' map
undecodable(cs) == {k \in 1..Len(cs) : cs[k] \notin DOMAIN charsMap}
firstOf(set) == CHOOSE k \in set : \A m \in set : k <= m

SpaceOSpaceS == <<S, Space, O, Space, S>>

\* C8 (Decode validation): Decode returns an error, and the empty string,
\* exactly when Decodable returns false, that is when some code of the
\* transcript has no entry in the chars' map; None has none; Decodable
\* reports the first such code; Decode([S, Space, O, Space, S]) is "s o s".
C8_DecodeValidation ==
    /\ None \notin DOMAIN charsMap
    /\ decodable # <<>> =>
          /\ decodable[1].decodable <=> undecodable(codes) = {}
          /\ undecodable(codes) = {} => decodable[1].err = nil
          /\ undecodable(codes) # {} =>
                decodable[1].err =
                    Errorf("noMatchingCode", codes[firstOf(undecodable(codes))], <<>>)
    /\ decodedCodes # <<>> =>
          /\ decodedCodes[1].err # nil <=> undecodable(codes) # {}
          /\ decodedCodes[1].err # nil => decodedCodes[1].decoded = <<>>
          /\ decodable # <<>> =>
                (decodedCodes[1].err # nil <=> ~decodable[1].decodable)
          /\ codes = SpaceOSpaceS =>
                decodedCodes[1] = [decoded |-> <<115, 32, 111, 32, 115>>, err |-> nil]

C8_Witness ==
    /\ decodable # <<>> /\ decodedCodes # <<>>
    /\ Len(codes) = 2
    /\ codes[1] = None
    /\ codes[2] = CodeFromDurations(<<Dah, Dah, Dah, Dah>>)

C8_WitnessSOS ==
    /\ codes = SpaceOSpaceS
    /\ decodedCodes # <<>>

\* C9 (nothing is skipped): when Encode returns no error its transcript has
\* one code per rune of the text, in the text's order, and when Decode
\* returns no error its string has one character per code, in the
\* transcript's order.
C9_NothingSkipped ==
    /\ (encoded # <<>> /\ encoded[1].err = nil) =>
          /\ Len(encoded[1].codes) = Len(text)
          /\ \A k \in 1..Len(text) :
                encoded[1].codes[k] = codesMap[TurkishCaseToLower(text[k])]
    /\ (decodedCodes # <<>> /\ decodedCodes[1].err = nil) =>
          /\ Len(decodedCodes[1].decoded) = Len(codes)
          /\ \A k \in 1..Len(codes) :
                decodedCodes[1].decoded[k] = charsMap[codes[k]]

C9_Witness ==
    /\ encoded # <<>> /\ encoded[1].err = nil
    /\ Len(text) = 3 /\ text[1] # text[2] /\ text[2] # text[3]
    /\ decodedCodes # <<>> /\ decodedCodes[1].err = nil
    /\ Len(decodedCodes[1].decoded) = 3

C9_WitnessByHand ==
    /\ encoded = <<>>
    /\ Len(codes) = 2 /\ codes[1] # codes[2]
    /\ decodedCodes # <<>> /\ decodedCodes[1].err = nil

\* is s a prefix of t
isPrefix(s, t) == Len(s) <= Len(t) /\ s = SubSeq(t, 1, Len(s))

\* the state part of C10
BeepSequential ==
    \* the tones are started in the order of the transcript's runes
    /\ isPrefix(started, unitsOf(codes))
    \* at most one tone is in flight: every tone started but the one being
    \* played has had its callback received
    /\ Len(mixer) <= 1
    /\ Len(started) - completed = Len(mixer)
    /\ beepPc = "rune" => mixer = <<>>
    \* the gap has been slept before every code but the first
    /\ beepPc \in {"rune", "wait"} => gaps = beepI - 1
    /\ beepPc = "sleep" => mixer = <<>> /\ gaps = beepI - 2
    \* Beep returns after the last tone's callback
    /\ beepPc = "returned" =>
          /\ started = unitsOf(codes)
          /\ completed = Len(started)
          /\ mixer = <<>>
          /\ gaps = IF codes = <<>> THEN 0 ELSE Len(codes) - 1

\* the step part of C10: a tone starts only when the callbacks of all the
\* tones before it have been received, and it is the next rune's tone
BeepStartsAfterDone ==
    started' # started =>
        /\ completed = Len(started)
        /\ mixer = <<>>
        /\ started' = Append(started, unitsOf(codes)[Len(started) + 1])
        /\ mixer' = <<[left |-> toneDuration(unitsOf(codes)[Len(started) + 1])]>>

\* C10 (Beep is sequential and synchronous): the tones are played in the
\* transcript's order, none is started before the callback of the one before
\* it has fired, the gap is slept before every code but the first, Beep
\* returns only after the last tone's callback, and Beep does return.
C10_BeepSequential ==
    /\ []BeepSequential
    /\ [][BeepStartsAfterDone]_vars
    /\ <>(beepPc = "returned")

C10_Witness ==
    /\ beepPc = "returned"
    /\ Len(codes) = 3
    /\ codes[1] = A /\ codes[2] = Space /\ codes[3] = N
    /\ completed = 5
    /\ gaps = 2
====
